---- MODULE Spec2Model ----
(***************************************************************************)
(* Model of stk's configuration engine (src/stk/config.py):                *)
(*   - Config.Vars: the iterative variable resolver (expand),              *)
(*   - Config.InterpolatedDict: the single-pass interpolated map,          *)
(*   - Config.__init__: the ordered pipeline that builds a Config,         *)
(*   - Config.StackRefs: the lazy registry of stack references,            *)
(* of its template renderer (src/stk/template.py) and of its AWS settings  *)
(* (src/stk/aws_config.py).                                                *)
(*                                                                         *)
(* The specifications of the module:                                       *)
(*   Spec          Config.__init__ from the construction of Vars to        *)
(*                 validation,                                             *)
(*   SpecRefs      the operations of one StackRefs object,                 *)
(*   SpecOpts      the same operations, one reference taking every form    *)
(*                 of spec,                                                *)
(*   SpecMap       InterpolatedDict applied to an object and to its own    *)
(*                 result,                                                 *)
(*   SpecTemplate  Template.render and FailedTemplate.__str__,             *)
(*   SpecAws       AwsSettings under Config.__init__ and later requests.   *)
(*                                                                         *)
(* Data representation.                                                    *)
(*   A dict is a function whose DOMAIN is its key set.                     *)
(*   A text is a sequence of atoms (strings): digits, words, "-".          *)
(*   A raw value is [type, toks, v]: type "str" is a Jinja2 template given *)
(*   as its token sequence toks, a token being a literal atom or a         *)
(*   reference {{ name }}; types "int", "bool" and "none" are YAML scalars *)
(*   of those Python types, v being the text str() gives for them.         *)
(*   A resolved value is [t, s]: its Python type t ("int", "bool", "str",  *)
(*   "none", or "params" / "deploy" for the objects Config.__init__        *)
(*   injects) and the text s that str() gives for it.                      *)
(***************************************************************************)
EXTENDS Integers, Sequences, FiniteSets, TLC

VARIABLES
    pc,                  \* position in Config.__init__ / Vars.__init__ / Vars.expand
    vars,                \* the dict passed to Vars.expand (mutated in place)
    vars0,               \* that dict as it was passed in
    self,                \* the Vars dict being filled (Config.vars once assigned)
    errors,              \* expand's local error table
    interpolation_depth, \* expand's loop counter
    todo,                \* rest of unexpanded_keys still to visit in this pass
    failed_keys,         \* what expand returned: None or the error table
    last_error,          \* history: per key, the exception of its latest attempt
    config,              \* the attributes Config.__init__ has assigned so far
    refs,                \* StackRefs.refs: the declared reference specs
    refs_order,          \* iteration order of refs.items()
    stacks,              \* StackRefs._stacks: absent, or name -> handle
    world,               \* stack names that exist in the deployment state
    describe_calls,      \* per reference: calls of StackReference.describe_stack
    interp_calls,        \* per reference: InterpolatedDict runs on its options
    last,                \* outcome of the last registry operation
    pass_start,          \* history: the resolved context when the current pass began
    imap,                \* an InterpolatedDict under construction and its inputs
    tpl,                 \* a Template, its rendering and the FailedTemplate report
    aws                  \* an AwsSettings object, its credentials and Config.__init__

varsV == <<pc, vars, vars0, self, errors, interpolation_depth, todo, failed_keys,
          last_error, config, pass_start>>
refsV == <<refs, refs_order, stacks, world, describe_calls, interp_calls, last>>
auxV == <<imap, tpl, aws>>
allvars == <<varsV, refsV, auxV>>

----------------------------------------------------------------------------
(* Bounds of the model *)

\* number of user variable names drawn from PlainOrder
MaxVars == 2

\* number of references declared in refs
MaxRefs == 2

\* cap on the per-reference call counters
MaxCalls == 2

\* largest number of lines of a template source
MaxLines == 10

(* Program constants *)

MAX_INTERPOLATION_DEPTH == 10

ERROR_CONTEXT_LINES == 3

----------------------------------------------------------------------------
(* Generic dict helpers *)

EmptyDict == [x \in {} |-> 0]

DictSet(d, k, v) == [x \in (DOMAIN d) \cup {k} |-> IF x = k THEN v ELSE d[x]]

\* Mutant of DictDel: the key is not removed
DictDel_keep(d, k) == d

DictDel(d, k) == [x \in (DOMAIN d) \ {k} |-> d[x]]

----------------------------------------------------------------------------
(* Names and their order (Python's str order restricted to the universe) *)

NameOrder ==
    <<"a", "b", "bar", "c", "d", "deploy", "environment", "foo", "my_db", "params">>

PlainOrder == <<"a", "b", "c", "d">>

PlainNames == {PlainOrder[i] : i \in {j \in 1..Len(PlainOrder) : j <= MaxVars}}

ReservedNames == {"deploy", "params"}

Rank(n) == CHOOSE i \in 1..Len(NameOrder) : NameOrder[i] = n

RECURSIVE sorted(_)
sorted(S) ==
    IF S = {} THEN << >>
    ELSE LET m == CHOOSE x \in S : \A y \in S : Rank(x) <= Rank(y)
         IN  <<m>> \o sorted(S \ {m})

----------------------------------------------------------------------------
(* Raw values and rendering *)

Lit(a) == [ref |-> "", lit |-> a]
Ref(n) == [ref |-> n, lit |-> ""]

Tpl(toks) == [type |-> "str", toks |-> toks, v |-> << >>]
IntRaw(d) == [type |-> "int", toks |-> << >>, v |-> <<d>>]
BoolRaw(b) == [type |-> "bool", toks |-> << >>, v |-> IF b THEN <<"True">> ELSE <<"False">>]
NoneRaw == [type |-> "none", toks |-> << >>, v |-> <<"None">>]

IntVal(ds) == [t |-> "int", s |-> ds]
BoolVal(b) == [t |-> "bool", s |-> IF b THEN <<"True">> ELSE <<"False">>]
StrVal(text) == [t |-> "str", s |-> text]
NoneValue == [t |-> "none", s |-> <<"None">>]
ParamsObject == [t |-> "params", s |-> <<"{..}">>]
DeployObject == [t |-> "deploy", s |-> <<"DeployMetadata()">>]

\* str(value) of a resolved value, as Jinja2 prints it inside a template
StrOf(val) == val.s

\* The text as one Python string
RECURSIVE Concat(_)
Concat(text) == IF text = << >> THEN "" ELSE Head(text) \o Concat(Tail(text))

\* tpl.render(ctx) under StrictUndefined: tokens are evaluated left to right,
\* the first reference to a name missing from ctx raises UndefinedError
RECURSIVE RenderToks(_, _)
RenderToks(toks, ctx) ==
    IF toks = << >> THEN [ok |-> TRUE, text |-> << >>, undefined |-> ""]
    ELSE LET h == Head(toks) IN
         IF h.ref # "" /\ h.ref \notin DOMAIN ctx
         THEN [ok |-> FALSE, text |-> << >>, undefined |-> h.ref]
         ELSE LET rest == RenderToks(Tail(toks), ctx)
                  piece == IF h.ref = "" THEN <<h.lit>> ELSE StrOf(ctx[h.ref])
              IN  IF rest.ok
                  THEN [ok |-> TRUE, text |-> piece \o rest.text, undefined |-> ""]
                  ELSE rest

\* Mutant of Render: Jinja2's default Undefined, a missing name renders as ""
RECURSIVE RenderToksLenient(_, _)
RenderToksLenient(toks, ctx) ==
    IF toks = << >> THEN << >>
    ELSE LET h == Head(toks)
             piece == IF h.ref = "" THEN <<h.lit>>
                      ELSE IF h.ref \in DOMAIN ctx THEN StrOf(ctx[h.ref]) ELSE << >>
         IN  piece \o RenderToksLenient(Tail(toks), ctx)

Render_lenient(value, ctx) ==
    IF value.type = "str"
    THEN [ok |-> TRUE, text |-> RenderToksLenient(value.toks, ctx), undefined |-> ""]
    ELSE [ok |-> TRUE, text |-> value.v, undefined |-> ""]

\* env.from_string(str(value)).render(ctx)
Render(value, ctx) ==
    IF value.type = "str" THEN RenderToks(value.toks, ctx)
    ELSE [ok |-> TRUE, text |-> value.v, undefined |-> ""]

\* The scalars PyYAML's resolver (YAML 1.1) reads as null, true and false
YamlNull == {"null", "Null", "NULL", "~"}
YamlTrue == {"true", "True", "TRUE", "yes", "Yes", "YES", "on", "On", "ON"}
YamlFalse == {"false", "False", "FALSE", "no", "No", "NO", "off", "Off", "OFF"}
Digits == {"1", "2", "3", "4", "5", "6", "7", "8", "9"}

\* the quote character of a YAML single-quoted scalar
Quote == "'"

\* yaml.safe_load of a rendered text: the empty document and null are None, a
\* single-quoted scalar the str between the quotes, a boolean word a bool, a
\* decimal numeral an int, any other plain scalar a str
safe_load(text) ==
    IF text = << >> THEN NoneValue
    ELSE IF Len(text) >= 2 /\ text[1] = Quote /\ text[Len(text)] = Quote
         THEN StrVal(SubSeq(text, 2, Len(text) - 1))
    ELSE IF Len(text) = 1 /\ text[1] \in YamlNull THEN NoneValue
    ELSE IF Len(text) = 1 /\ text[1] \in YamlTrue THEN BoolVal(TRUE)
    ELSE IF Len(text) = 1 /\ text[1] \in YamlFalse THEN BoolVal(FALSE)
    ELSE IF \A i \in 1..Len(text) : text[i] \in Digits THEN IntVal(text)
    ELSE StrVal(text)

----------------------------------------------------------------------------
(* Config.InterpolatedDict *)

\* A YAML node as Python sees it: its type (kind), its items when it is a
\* mapping, and its truth value
NoneObject == [kind |-> "none", d |-> EmptyDict, truthy |-> FALSE]
DictObject(d) == [kind |-> "dict", d |-> d, truthy |-> DOMAIN d # {}]
BoolObject(b) == [kind |-> "bool", d |-> EmptyDict, truthy |-> b]
IntObject(n) == [kind |-> "int", d |-> EmptyDict, truthy |-> n # 0]
StrObject(text) == [kind |-> "str", d |-> EmptyDict, truthy |-> text # << >>]
ListObject(items) == [kind |-> "list", d |-> EmptyDict, truthy |-> items # << >>]

\* `not object`
Falsy(object) == ~object.truthy

\* One key of the loop of InterpolatedDict.__init__: [ok, keep, val]
InterpolateValue(v, ctx) ==
    IF v.type = "none" THEN [ok |-> TRUE, keep |-> TRUE, val |-> NoneValue]
    ELSE LET r == Render(v, ctx) IN
         IF ~r.ok THEN [ok |-> FALSE, keep |-> FALSE, val |-> NoneValue]
         ELSE LET parsed_value == safe_load(r.text) IN
              [ok |-> TRUE, keep |-> parsed_value # NoneValue, val |-> parsed_value]

\* InterpolatedDict(object, vars): [ok, d]; ok = FALSE when it raises
InterpolatedDict(object, ctx) ==
    IF Falsy(object) THEN [ok |-> TRUE, d |-> EmptyDict]
    ELSE IF object.kind # "dict" THEN [ok |-> FALSE, d |-> EmptyDict]
    ELSE IF \E k \in DOMAIN object.d : ~InterpolateValue(object.d[k], ctx).ok
         THEN [ok |-> FALSE, d |-> EmptyDict]
         ELSE [ok |-> TRUE,
               d |-> [k \in {x \in DOMAIN object.d : InterpolateValue(object.d[x], ctx).keep}
                        |-> InterpolateValue(object.d[k], ctx).val]]

----------------------------------------------------------------------------
(* Config.Vars *)

KeyError(key) == [type |-> "KeyError", name |-> key]
UndefinedError(name) == [type |-> "UndefinedError", name |-> name]

InterpolationError(key, value, error) == [key |-> key, value |-> value, error |-> error]

\* The types Vars.expand renders as a template: bool, dict, list, str
Templated(value) == value.type = "str"

\* `del errors[key]` raises KeyError when the key has no entry
DelErrorsRaises(key, errs) == key \notin DOMAIN errs

\* Mutant of ClearError: the stale entry is left in the table
ClearError_keep(errs, key) == errs

\* `del errors[key]` when the key has an entry
ClearError(errs, key) == DictDel(errs, key)

NoError == [type |-> "", name |-> ""]

\* The body of the try block after `del errors[key]`, evaluated against ctx:
\* [ok, val, error]
Attempt(key, value, ctx) ==
    IF Templated(value)
    THEN LET r == Render(value, ctx) IN
         IF r.ok THEN [ok |-> TRUE, val |-> safe_load(r.text), error |-> NoError]
         ELSE [ok |-> FALSE, val |-> NoneValue, error |-> UndefinedError(r.undefined)]
    ELSE [ok |-> TRUE, val |-> [t |-> value.type, s |-> value.v], error |-> NoError]

\* `while interpolation_depth <= self.MAX_INTERPOLATION_DEPTH`
WhileCond(depth) == depth <= MAX_INTERPOLATION_DEPTH

\* sorted(set(vars.keys()) - set(self.keys()))
UnexpandedKeys(vs, slf) == sorted((DOMAIN vs) \ (DOMAIN slf))

FailedKeysNone == [none |-> TRUE, table |-> EmptyDict]
FailedKeys(errs) == [none |-> FALSE, table |-> errs]

\* Mutant of VarsRaises: the error table is logged and construction goes on
VarsRaises_logonly(fk) == FALSE

\* `if failed_keys:` in Vars.__init__
VarsRaises(fk) == ~fk.none /\ DOMAIN fk.table # {}

\* Head of the while loop of expand: the test, the increment, the computation
\* of unexpanded_keys and the early return
ExpandLoop ==
    /\ pc = "expand_while"
    /\ IF WhileCond(interpolation_depth)
       THEN /\ interpolation_depth' = interpolation_depth + 1
            /\ LET unexpanded_keys == UnexpandedKeys(vars, self) IN
               IF unexpanded_keys = << >>
               THEN /\ failed_keys' = FailedKeysNone
                    /\ pc' = "vars_init"
                    /\ todo' = << >>
               ELSE /\ todo' = unexpanded_keys
                    /\ pc' = "expand_for"
                    /\ UNCHANGED failed_keys
       ELSE /\ failed_keys' = FailedKeys(errors)
            /\ pc' = "vars_init"
            /\ UNCHANGED <<interpolation_depth, todo>>
    /\ pass_start' = self
    /\ UNCHANGED <<vars, vars0, self, errors, last_error, config>>
    /\ UNCHANGED <<refsV, auxV>>

\* One iteration of `for key in unexpanded_keys`
ExpandKey ==
    /\ pc = "expand_for"
    /\ todo # << >>
    /\ LET key == Head(todo)
           value == vars[key]
       IN  IF DelErrorsRaises(key, errors)
           THEN /\ errors' = DictSet(errors, key, InterpolationError(key, value, KeyError(key)))
                /\ last_error' = DictSet(last_error, key, KeyError(key))
                /\ UNCHANGED <<self, vars>>
           ELSE LET r == Attempt(key, value, self) IN
                IF r.ok
                THEN /\ self' = DictSet(self, key, r.val)
                     /\ vars' = DictDel(vars, key)
                     /\ errors' = ClearError(errors, key)
                     /\ last_error' = DictSet(last_error, key, NoError)
                ELSE /\ errors' = DictSet(ClearError(errors, key), key,
                                          InterpolationError(key, value, r.error))
                     /\ last_error' = DictSet(last_error, key, r.error)
                     /\ UNCHANGED <<self, vars>>
    /\ todo' = Tail(todo)
    /\ pc' = IF Tail(todo) = << >> THEN "expand_while" ELSE "expand_for"
    /\ UNCHANGED <<vars0, interpolation_depth, failed_keys, config, pass_start>>
    /\ UNCHANGED <<refsV, auxV>>

\* Vars.__init__ after expand returned, and the assignment self.vars = Vars(..)
VarsInit ==
    /\ pc = "vars_init"
    /\ IF VarsRaises(failed_keys)
       THEN /\ pc' = "raised"
            /\ config' = [config EXCEPT !.raised = "vars"]
       ELSE /\ pc' = "params"
            /\ config' = [config EXCEPT !.assigned = @ \cup {"vars"}]
    /\ UNCHANGED <<vars, vars0, self, errors, interpolation_depth, todo, failed_keys, last_error, pass_start>>
    /\ UNCHANGED <<refsV, auxV>>

----------------------------------------------------------------------------
(* Config.__init__ from the construction of Vars on *)

\* Sections handed over by the include loader (fetch_dict), drawn from small sets
ParamInputs ==
    {NoneObject, DictObject("p" :> Tpl(<<Lit("4")>>)), DictObject("p" :> Tpl(<<Ref("a"), Lit("4")>>))}

TemplateInputs ==
    {DictObject(("name" :> Tpl(<<Lit("5")>>)) @@ ("root" :> NoneRaw)),
     DictObject(("name" :> Tpl(<<Ref("b")>>)) @@ ("root" :> NoneRaw))}

TagInputs == {NoneObject, DictObject("t" :> Tpl(<<Ref("a")>>))}

NoConfig ==
    [assigned |-> {}, raised |-> "", params |-> EmptyDict,
     template_source |-> EmptyDict, tags |-> EmptyDict]

Raise(step) == [config EXCEPT !.raised = step]

\* self.params = InterpolatedDict(params, self.vars); self.vars["params"] = self.params
InjectParams(slf) == DictSet(slf, "params", ParamsObject)

\* self.vars["deploy"] = DeployMetadata(..)
InjectDeploy(slf) == DictSet(slf, "deploy", DeployObject)

BuildParams ==
    /\ pc = "params"
    /\ \E params \in ParamInputs :
          LET r == InterpolatedDict(params, self) IN
          IF r.ok
          THEN /\ config' = [config EXCEPT !.params = r.d, !.assigned = @ \cup {"params"}]
               /\ self' = InjectParams(self)
               /\ pc' = "template_source"
          ELSE /\ config' = Raise("params")
               /\ pc' = "raised"
               /\ UNCHANGED self
    /\ UNCHANGED <<vars, vars0, errors, interpolation_depth, todo, failed_keys, last_error, pass_start>>
    /\ UNCHANGED <<refsV, auxV>>

BuildTemplateSource ==
    /\ pc = "template_source"
    /\ \E section \in TemplateInputs :
          LET r == InterpolatedDict(section, self) IN
          IF r.ok
          THEN /\ config' = [config EXCEPT !.template_source = r.d,
                                           !.assigned = @ \cup {"template_source"}]
               /\ pc' = "deploy"
          ELSE /\ config' = Raise("template_source")
               /\ pc' = "raised"
    /\ UNCHANGED <<vars, vars0, self, errors, interpolation_depth, todo, failed_keys, last_error, pass_start>>
    /\ UNCHANGED <<refsV, auxV>>

BuildDeploy ==
    /\ pc = "deploy"
    /\ self' = InjectDeploy(self)
    /\ config' = [config EXCEPT !.assigned = @ \cup {"deploy"}]
    /\ pc' = "tags"
    /\ UNCHANGED <<vars, vars0, errors, interpolation_depth, todo, failed_keys, last_error, pass_start>>
    /\ UNCHANGED <<refsV, auxV>>

BuildTags ==
    /\ pc = "tags"
    /\ \E section \in TagInputs :
          LET r == InterpolatedDict(section, self) IN
          IF r.ok
          THEN /\ config' = [config EXCEPT !.tags = r.d, !.assigned = @ \cup {"tags"}]
               /\ pc' = "validate"
          ELSE /\ config' = Raise("tags")
               /\ pc' = "raised"
    /\ UNCHANGED <<vars, vars0, self, errors, interpolation_depth, todo, failed_keys, last_error, pass_start>>
    /\ UNCHANGED <<refsV, auxV>>

\* includes.validate(self): the loader's linting accepts or rejects
Validate ==
    /\ pc = "validate"
    /\ \E accepted \in BOOLEAN :
          IF accepted
          THEN /\ config' = [config EXCEPT !.assigned = @ \cup {"validated"}]
               /\ pc' = "done"
          ELSE /\ config' = Raise("validate")
               /\ pc' = "raised"
    /\ UNCHANGED <<vars, vars0, self, errors, interpolation_depth, todo, failed_keys, last_error, pass_start>>
    /\ UNCHANGED <<refsV, auxV>>

----------------------------------------------------------------------------
(* Config.StackRefs *)

Environment == "dev"

\* the names refs may declare, and the names the operations are asked for
RefUniverse == {"bar", "environment", "my_db"}
QueryNames == RefUniverse \cup {"foo"}
OutputKeys == {"FirstOutput", "Missing"}

\* name.replace("_", "-")
Dashed(name) == IF name = "my_db" THEN "my-db" ELSE name

DEFAULTS ==
    ("stack_name" :> Tpl(<<Ref("environment"), Lit("-"), Ref("name")>>))
    @@ ("optional" :> BoolRaw(FALSE))

\* Mutant of Merge: the defaults win over the options given, {**cfg, **self.DEFAULTS}
Merge_defaults(defaults, d) ==
    [k \in (DOMAIN defaults) \cup (DOMAIN d) |-> IF k \in DOMAIN defaults THEN defaults[k] ELSE d[k]]

\* {**self.DEFAULTS, **cfg}
Merge(defaults, d) ==
    [k \in (DOMAIN defaults) \cup (DOMAIN d) |-> IF k \in DOMAIN d THEN d[k] ELSE defaults[k]]

\* {"environment": self.config.environment, "name": name.replace("_", "-")}
RefContext(name) ==
    ("environment" :> StrVal(<<Environment>>)) @@ ("name" :> StrVal(<<Dashed(name)>>))

\* bool(value) of a resolved value
Truthy(val) == ~(val.t = "none" \/ val = BoolVal(FALSE) \/ (val.t = "str" /\ val.s = << >>))

\* OptionalStackReference(aws, name=opts.stack_name, optional=opts.optional)
Handle(stack_name, optional) ==
    [name |-> Concat(StrOf(stack_name)), optional |-> optional, result |-> "unset"]

\* One reference of the loop of stacks(): [outcome, handle, interp]
BuildOne(name, cfg0) ==
    LET cfg == IF Falsy(cfg0) THEN DictObject(EmptyDict) ELSE cfg0
        none == Handle(NoneValue, NoneValue)
    IN  IF cfg.kind # "dict"
        THEN [outcome |-> "exit", handle |-> none, interp |-> FALSE]
        ELSE LET final_opts == InterpolatedDict(DictObject(Merge(DEFAULTS, cfg.d)),
                                                RefContext(name))
             IN  IF ~final_opts.ok
                 THEN [outcome |-> "exit", handle |-> none, interp |-> TRUE]
                 ELSE IF DOMAIN final_opts.d # {"stack_name", "optional"}
                 THEN [outcome |-> "raise", handle |-> none, interp |-> TRUE]
                 ELSE [outcome |-> "ok", interp |-> TRUE,
                       handle |-> Handle(final_opts.d["stack_name"], final_opts.d["optional"])]

\* The loop of stacks() over self.refs.items(), from an empty self._stacks:
\* [outcome, map, interp], interp being the names whose options were interpolated
RECURSIVE BuildStacks(_, _, _, _)
BuildStacks(order, rf, map, interp) ==
    IF order = << >> THEN [outcome |-> "ok", map |-> map, interp |-> interp]
    ELSE LET name == Head(order) IN
         IF name = "environment" THEN BuildStacks(Tail(order), rf, map, interp)
         ELSE LET one == BuildOne(name, rf[name])
                  done == IF one.interp THEN interp \cup {name} ELSE interp
              IN  IF one.outcome # "ok"
                  THEN [outcome |-> one.outcome, map |-> map, interp |-> done]
                  ELSE BuildStacks(Tail(order), rf, DictSet(map, name, one.handle), done)

\* Mutant of StacksCall: the registry is rebuilt by every access
StacksCall_rebuild(st, rf, order) == BuildStacks(order, rf, EmptyDict, {})

\* StackRefs.stacks(): builds self._stacks unless the attribute exists
StacksCall(st, rf, order) ==
    IF st.built THEN [outcome |-> "ok", map |-> st.map, interp |-> {}]
    ELSE BuildStacks(order, rf, EmptyDict, {})

\* StackReference.describe_stack of the base class: asks the deployment state
UnderlyingDescribe(h, w) == IF h.name \in w THEN "stack" ELSE "none"

\* Mutant of HandleDescribe: no memoization, every call asks the deployment state
HandleDescribe_nocache(h, w) ==
    [h |-> [h EXCEPT !.result = UnderlyingDescribe(h, w)],
     result |-> UnderlyingDescribe(h, w), called |-> 1]

\* OptionalStackReference.describe_stack: [h, result, called]
HandleDescribe(h, w) ==
    IF h.result = "unset"
    THEN [h |-> [h EXCEPT !.result = UnderlyingDescribe(h, w)],
          result |-> UnderlyingDescribe(h, w), called |-> 1]
    ELSE [h |-> h, result |-> h.result, called |-> 0]

\* the outputs an existing stack publishes
StackOutputs == "FirstOutput" :> "foo"

RECURSIVE JoinComma(_)
JoinComma(names) ==
    IF names = << >> THEN ""
    ELSE IF Len(names) = 1 THEN names[1]
    ELSE names[1] \o ", " \o JoinComma(Tail(names))

\* the names listed by the error of stack(): sorted(self.refs.keys())
ListedNames(rf) == sorted(DOMAIN rf)

UndefinedMsg(name, listed) ==
    "Attempt to access stack " \o name \o ", but it's not defined in config.refs - only "
    \o JoinComma(listed) \o " are defined"

RequiredMsg(name, h) ==
    "Stack config.refs[" \o name \o "] (" \o h.name \o ") does not exist, but is required"

OutputKeyMsg(key, h) == key \o " not in outputs of " \o h.name

Result(op, name, outcome, value, msg, lookup) ==
    [op |-> op, name |-> name, outcome |-> outcome, value |-> value, msg |-> msg,
     lookup |-> lookup]

\* Mutant of OutputMissing: the optional flag is not consulted
OutputMissing_required(name, h) == [outcome |-> "raise", value |-> "", msg |-> RequiredMsg(name, h)]

\* StackRefs.output when stack.exists() is false
OutputMissing(name, h) ==
    IF Truthy(h.optional)
    THEN [outcome |-> "return", value |-> "None", msg |-> ""]
    ELSE [outcome |-> "raise", value |-> "", msg |-> RequiredMsg(name, h)]

Bump(calls, names) == [n \in DOMAIN calls |-> IF n \in names THEN calls[n] + 1 ELSE calls[n]]

CountersBelowCap ==
    \A n \in RefUniverse : describe_calls[n] < MaxCalls /\ interp_calls[n] < MaxCalls

\* The state after self.stacks() returned or failed with S
AfterStacks(S) ==
    /\ stacks' = [built |-> TRUE, map |-> S.map]
    /\ interp_calls' = Bump(interp_calls, S.interp)

\* self.stacks() failed (exit(-1) or an exception) under operation op
StacksFailed(op, name, S) ==
    /\ AfterStacks(S)
    /\ last' = Result(op, name, S.outcome, "", "", FALSE)
    /\ UNCHANGED describe_calls

\* stack(name) fails: name is not in the registry
StackUndefined(op, name, S) ==
    /\ AfterStacks(S)
    /\ last' = Result(op, name, "raise", "", UndefinedMsg(name, ListedNames(refs)), FALSE)
    /\ UNCHANGED describe_calls

\* The state after describe_stack() left the handle of name as h
AfterDescribe(name, S, h, called) ==
    /\ stacks' = [built |-> TRUE, map |-> DictSet(S.map, name, h)]
    /\ interp_calls' = Bump(interp_calls, S.interp)
    /\ describe_calls' = [describe_calls EXCEPT ![name] = @ + called]

\* StackRefs.stack(name) / StackRefs.__getitem__(name)
Stack(name) ==
    /\ CountersBelowCap
    /\ \E S \in {StacksCall(stacks, refs, refs_order)} :
          IF S.outcome # "ok" THEN StacksFailed("stack", name, S)
          ELSE IF name \notin DOMAIN S.map THEN StackUndefined("stack", name, S)
          ELSE /\ AfterStacks(S)
               /\ last' = Result("stack", name, "return", S.map[name].name, "", FALSE)
               /\ UNCHANGED describe_calls
    /\ UNCHANGED <<refs, refs_order, world>>
    /\ UNCHANGED <<varsV, auxV>>

\* StackRefs.__contains__(name)
Contains(name) ==
    /\ CountersBelowCap
    /\ \E S \in {StacksCall(stacks, refs, refs_order)} :
          IF S.outcome # "ok" THEN StacksFailed("contains", name, S)
          ELSE /\ AfterStacks(S)
               /\ last' = Result("contains", name, "return",
                                 IF name \in DOMAIN S.map THEN "True" ELSE "False", "", FALSE)
               /\ UNCHANGED describe_calls
    /\ UNCHANGED <<refs, refs_order, world>>
    /\ UNCHANGED <<varsV, auxV>>

\* StackRefs.exists(name): self[name].exists(), exists() being
\* describe_stack() is not None
Exists(name) ==
    /\ CountersBelowCap
    /\ \E S \in {StacksCall(stacks, refs, refs_order)} :
          IF S.outcome # "ok" THEN StacksFailed("exists", name, S)
          ELSE IF name \notin DOMAIN S.map THEN StackUndefined("exists", name, S)
          ELSE \E d \in {HandleDescribe(S.map[name], world)} :
                  /\ AfterDescribe(name, S, d.h, d.called)
                  /\ last' = Result("exists", name, "return",
                                    IF d.result = "stack" THEN "True" ELSE "False", "", FALSE)
    /\ UNCHANGED <<refs, refs_order, world>>
    /\ UNCHANGED <<varsV, auxV>>

\* self.stack(name).describe_stack()
Describe(name) ==
    /\ CountersBelowCap
    /\ \E S \in {StacksCall(stacks, refs, refs_order)} :
          IF S.outcome # "ok" THEN StacksFailed("describe", name, S)
          ELSE IF name \notin DOMAIN S.map THEN StackUndefined("describe", name, S)
          ELSE \E d \in {HandleDescribe(S.map[name], world)} :
                  /\ AfterDescribe(name, S, d.h, d.called)
                  /\ last' = Result("describe", name, "return", d.result, "", FALSE)
    /\ UNCHANGED <<refs, refs_order, world>>
    /\ UNCHANGED <<varsV, auxV>>

\* stack.output(key) of the base class: reads the outputs of describe_stack()
HandleOutput(name, key, d) ==
    IF d.result = "stack" /\ key \in DOMAIN StackOutputs
    THEN Result("output", name, "return", StackOutputs[key], "", TRUE)
    ELSE Result("output", name, "raise", "", OutputKeyMsg(key, d.h), TRUE)

\* StackRefs.output(name, output_name)
Output(name, key) ==
    /\ CountersBelowCap
    /\ \E S \in {StacksCall(stacks, refs, refs_order)} :
          IF S.outcome # "ok" THEN StacksFailed("output", name, S)
          ELSE IF name \notin DOMAIN S.map THEN StackUndefined("output", name, S)
          ELSE \E d \in {HandleDescribe(S.map[name], world)} :
                  IF d.result # "stack"
                  THEN \E m \in {OutputMissing(name, d.h)} :
                          /\ AfterDescribe(name, S, d.h, d.called)
                          /\ last' = Result("output", name, m.outcome, m.value, m.msg, FALSE)
                  ELSE \E q \in {HandleDescribe(d.h, world)} :
                          /\ AfterDescribe(name, S, q.h, d.called + q.called)
                          /\ last' = HandleOutput(name, key, q)
    /\ UNCHANGED <<refs, refs_order, world>>
    /\ UNCHANGED <<varsV, auxV>>

\* The deployment state changes: the stack a handle names is created or deleted
EnvChange ==
    /\ \E n \in DOMAIN stacks.map :
          LET target == stacks.map[n].name IN
          world' = IF target \in world THEN world \ {target} ELSE world \cup {target}
    /\ UNCHANGED <<refs, refs_order, stacks, describe_calls, interp_calls, last>>
    /\ UNCHANGED <<varsV, auxV>>

----------------------------------------------------------------------------
(* InterpolatedDict applied to an object, and again to its own result *)

\* str(v) of a value of an InterpolatedDict, read as a template: the text of a
\* str is literal template text, None is handled before str() is taken
AsRaw(val) ==
    IF val.t = "none" THEN NoneRaw
    ELSE IF val.t = "str" THEN Tpl([i \in 1..Len(val.s) |-> Lit(val.s[i])])
    ELSE [type |-> val.t, toks |-> << >>, v |-> val.s]

\* an InterpolatedDict handed over as the object of another one
AsObject(d) == DictObject([k \in DOMAIN d |-> AsRaw(d[k])])

NoMap == [ok |-> TRUE, d |-> EmptyDict]

ImapIdle ==
    [stage |-> "idle", object |-> NoneObject, ctx |-> EmptyDict, first |-> NoMap, second |-> NoMap]

\* values of a mapping: literals, quoted literals, references to the context,
\* null, the empty string, and scalars of other types
MapValues ==
    {Tpl(<<Lit("4")>>), Tpl(<<Lit("x")>>), Tpl(<<Lit("true")>>), Tpl(<< >>),
     Tpl(<<Lit("null")>>),
     Tpl(<<Lit(Quote), Lit("7"), Lit(Quote)>>),
     Tpl(<<Ref("a")>>), Tpl(<<Ref("a"), Lit("2")>>), Tpl(<<Lit(Quote), Ref("a"), Lit(Quote)>>),
     Tpl(<<Ref("b")>>), NoneRaw, BoolRaw(FALSE), IntRaw("7")}

MapKeys == {"k", "j"}

MapObjects ==
    {NoneObject, BoolObject(FALSE), BoolObject(TRUE), IntObject(0), IntObject(7),
     StrObject(<< >>), StrObject(<<"x">>), ListObject(<< >>), ListObject(<<"x">>)}
    \cup {DictObject(d) : d \in UNION {[K -> MapValues] : K \in SUBSET MapKeys}}

MapContexts ==
    {EmptyDict, "a" :> IntVal(<<"1">>), "a" :> StrVal(<<"x">>), "a" :> BoolVal(TRUE)}

\* InterpolatedDict(object, vars)
MapApply ==
    /\ imap.stage = "input"
    /\ imap' = [imap EXCEPT !.stage = "once", !.first = InterpolatedDict(imap.object, imap.ctx)]
    /\ UNCHANGED <<tpl, aws>>
    /\ UNCHANGED <<varsV, refsV>>

\* InterpolatedDict(result, {}) on the result of the first application
MapApplyAgain ==
    /\ imap.stage = "once"
    /\ imap.first.ok
    /\ imap' = [imap EXCEPT !.stage = "twice",
                            !.second = InterpolatedDict(AsObject(imap.first.d), EmptyDict)]
    /\ UNCHANGED <<tpl, aws>>
    /\ UNCHANGED <<varsV, refsV>>

----------------------------------------------------------------------------
(* Template.render and FailedTemplate (src/stk/template.py) *)

Min(a, b) == IF a <= b THEN a ELSE b
Max(a, b) == IF a >= b THEN a ELSE b

\* a text of n lines as source.split("\n") gives it: line i holds the text i
Text(which, n) == [which |-> which, lines |-> [i \in 1..n |-> i]]

\* a traceback entry: the file of the frame's code and the line it was at
Frame(filename, lineno) == [filename |-> filename, lineno |-> lineno]

NoFault == [kind |-> "none", frames |-> << >>]

\* FailedTemplate(source, location, error)
FailedTemplate(source, location, error) ==
    [source |-> source, location |-> location, error |-> error]

NoFailed == FailedTemplate(Text("", 0), "", NoFault)

TemplateResult(outcome, kind, template) ==
    [outcome |-> outcome, kind |-> kind, template |-> template]

\* Mutant of render: fail_on_error is not consulted, the FailedTemplate is returned
render_returns(raw, content, fault, location, fail_on_error) ==
    IF fault.kind = "fetch" THEN TemplateResult("raise", "Exception", NoFailed)
    ELSE IF fault.kind = "exit" THEN TemplateResult("exit", "SystemExit", NoFailed)
    ELSE IF fault.kind = "none" THEN TemplateResult("return", "RenderedTemplate", NoFailed)
    ELSE TemplateResult("return", "FailedTemplate",
                        FailedTemplate(IF fault.kind = "parse" THEN content ELSE raw,
                                       location, fault))

\* Template.render(vars, fail_on_error).  fault tells what goes wrong: "fetch"
\* an exception before the try block (provider.template(), helpers.inject),
\* "render" an Exception in env.from_string(..).render(vars), "parse" an
\* Exception in RenderedTemplate(content), "exit" a SystemExit in the try block
\* (exit(-1) of StackRefs.stacks called from the template), which
\* `except Exception` lets through
render(raw, content, fault, location, fail_on_error) ==
    IF fault.kind = "fetch" THEN TemplateResult("raise", "Exception", NoFailed)
    ELSE IF fault.kind = "exit" THEN TemplateResult("exit", "SystemExit", NoFailed)
    ELSE IF fault.kind = "none" THEN TemplateResult("return", "RenderedTemplate", NoFailed)
    ELSE LET template == FailedTemplate(IF fault.kind = "parse" THEN content ELSE raw,
                                        location, fault)
         IN  IF fail_on_error
             THEN TemplateResult("raise", "TemplateRenderingException", template)
             ELSE TemplateResult("return", "FailedTemplate", template)

\* FailedTemplate.source_context(line_no): the lines "%4d : %s" % (i, lines[i-1])
\* for i in range(from_line, to_line)
source_context(source, line_no) ==
    LET lines == source.lines
        from_line == Max(1, line_no - ERROR_CONTEXT_LINES)
        to_line == Min(Len(lines), line_no + ERROR_CONTEXT_LINES) - 1
    IN  [j \in 1..Max(0, to_line - from_line) |->
            [no |-> from_line + j - 1, line |-> lines[from_line + j - 1]]]

\* the traceback entries from the first one whose file is "<template>" on
RECURSIVE FromTemplateFrame(_)
FromTemplateFrame(frames) ==
    IF frames = << >> THEN << >>
    ELSE IF Head(frames).filename = "<template>" THEN frames
    ELSE FromTemplateFrame(Tail(frames))

NoReport == [kind |-> "", line_no |-> 0, filename |-> "", context |-> << >>]

\* FailedTemplate.__str__
FailedTemplateStr(template) ==
    LET frames == template.error.frames
        traceback == FromTemplateFrame(frames)
    IN  IF traceback = << >>
        THEN [kind |-> "outside", line_no |-> frames[Len(frames)].lineno,
              filename |-> frames[Len(frames)].filename, context |-> << >>]
        ELSE [kind |-> "template", line_no |-> Head(traceback).lineno,
              filename |-> "<template>",
              context |-> source_context(template.source, Head(traceback).lineno)]

TplIdle ==
    [stage |-> "idle", raw |-> Text("", 0), content |-> Text("", 0), fault |-> NoFault,
     location |-> "", fail_on_error |-> FALSE,
     result |-> TemplateResult("", "", NoFailed), report |-> NoReport]

\* the tracebacks of an error raised while a template of n lines is rendered
RenderTraces(n) ==
    {<<Frame("template.py", 85)>> \o mid \o tail :
        mid \in {<< >>} \cup {<<Frame("<template>", l)>> : l \in 1..n}
                \cup {<<Frame("<template>", q[1]), Frame("<template>", q[2])>> :
                         q \in (1..n) \X {1, n}},
        tail \in {<< >>, <<Frame("template_helpers.py", 12)>>}}

Faults(n) ==
    {NoFault, [kind |-> "fetch", frames |-> <<Frame("provider.py", 7)>>],
     [kind |-> "parse", frames |-> <<Frame("template.py", 86), Frame("yaml.py", 3)>>],
     [kind |-> "exit", frames |-> <<Frame("template.py", 85), Frame("<template>", 1),
                                    Frame("config.py", 211)>>]}
    \cup {[kind |-> "render", frames |-> f] : f \in RenderTraces(n)}

\* Template.render
TemplateRender ==
    /\ tpl.stage = "ready"
    /\ tpl' = [tpl EXCEPT !.stage = "rendered",
                          !.result = render(tpl.raw, tpl.content, tpl.fault, tpl.location,
                                            tpl.fail_on_error)]
    /\ UNCHANGED <<imap, aws>>
    /\ UNCHANGED <<varsV, refsV>>

\* str() of the FailedTemplate that render returned or raised
FailedStr ==
    /\ tpl.stage = "rendered"
    /\ tpl.result.template # NoFailed
    /\ tpl' = [tpl EXCEPT !.stage = "reported", !.report = FailedTemplateStr(tpl.result.template)]
    /\ UNCHANGED <<imap, aws>>
    /\ UNCHANGED <<varsV, refsV>>

----------------------------------------------------------------------------
(* AwsSettings (src/stk/aws_config.py) and the head of Config.__init__ *)

\* account ids; NoAccount is account_id = None
Accounts == {"111111111111", "222222222222"}
NoAccount == ""

NoRequest == [op |-> "", outcome |-> ""]

\* stage is the position of Config.__init__, account_id and checked are the
\* attributes account_id and _checked_account, declared is the account_id the
\* settings were constructed with, actual is the account sts reports for the
\* credentials, handed counts the clients and resources handed out
AwsIdle ==
    [stage |-> "idle", declared |-> NoAccount, account_id |-> NoAccount, checked |-> FALSE,
     actual |-> NoAccount, handed |-> 0, interpolated |-> {}, last |-> NoRequest]

\* Mutant of session: _checked_account is set before the accounts are compared
session_checked_first(a) ==
    IF a.checked THEN [raised |-> FALSE, a |-> a]
    ELSE IF a.account_id # NoAccount /\ a.actual # a.account_id
         THEN [raised |-> TRUE, a |-> [a EXCEPT !.checked = TRUE]]
         ELSE [raised |-> FALSE, a |-> [a EXCEPT !.checked = TRUE, !.account_id = a.actual]]

\* AwsSettings._session: [raised, a], a being the settings after the call
session(a) ==
    IF a.checked THEN [raised |-> FALSE, a |-> a]
    ELSE IF a.account_id # NoAccount /\ a.actual # a.account_id
         THEN [raised |-> TRUE, a |-> a]
         ELSE [raised |-> FALSE, a |-> [a EXCEPT !.checked = TRUE, !.account_id = a.actual]]

\* the sections Config.__init__ interpolates after the aws settings, in order
Sections == <<"core", "refs", "vars", "params", "tags">>

NextStage(stage) ==
    IF \E i \in 1..(Len(Sections) - 1) : Sections[i] = stage
    THEN Sections[(CHOOSE i \in 1..(Len(Sections) - 1) : Sections[i] = stage) + 1]
    ELSE "done"

\* Config.__init__: self.aws = AwsSettings(**aws_settings); self.aws.get_account_id()
ConfigAws ==
    /\ aws.stage = "aws"
    /\ \E r \in {session(aws)} :
          aws' = [r.a EXCEPT !.stage = IF r.raised THEN "raised" ELSE Sections[1],
                            !.last = [op |-> "get_account_id",
                                      outcome |-> IF r.raised THEN "raise" ELSE "return"]]
    /\ UNCHANGED <<imap, tpl>>
    /\ UNCHANGED <<varsV, refsV>>

\* Config.__init__: the interpolation of the next section
ConfigSection ==
    /\ \E i \in 1..Len(Sections) : Sections[i] = aws.stage
    /\ aws' = [aws EXCEPT !.stage = NextStage(aws.stage),
                          !.interpolated = @ \cup {aws.stage}]
    /\ UNCHANGED <<imap, tpl>>
    /\ UNCHANGED <<varsV, refsV>>

\* AwsSettings.client(service) / AwsSettings.resource(service) / get_account_id()
Request(op) ==
    /\ aws.stage \notin {"idle", "aws"}
    /\ aws.handed < MaxCalls
    /\ \E r \in {session(aws)} :
          aws' = [r.a EXCEPT !.handed = IF r.raised \/ op = "get_account_id" THEN @ ELSE @ + 1,
                            !.last = [op |-> op,
                                      outcome |-> IF r.raised THEN "raise" ELSE "return"]]
    /\ UNCHANGED <<imap, tpl>>
    /\ UNCHANGED <<varsV, refsV>>

----------------------------------------------------------------------------
(* The objects no operation of which is running *)


AuxIdle ==
    /\ imap = ImapIdle
    /\ tpl = TplIdle
    /\ aws = AwsIdle

----------------------------------------------------------------------------
(* Inputs of Vars: the raw variable mappings *)

RawValues ==
    {IntRaw("7"), Tpl(<<Lit("1")>>)}
    \cup {Tpl(<<Ref(x)>>) : x \in PlainNames}
    \cup {Tpl(<<Ref(x), Lit("2")>>) : x \in PlainNames}
    \cup {Tpl(<<Ref(p[1]), Ref(p[2])>>) : p \in {q \in PlainNames \X PlainNames : q[1] # q[2]}}

ReservedRaw == Tpl(<<Lit("3")>>)

RawVarSets ==
    UNION {
      {f \in [D \cup R -> RawValues \cup {ReservedRaw}] :
           /\ \A r \in R : f[r] = ReservedRaw
           /\ \A n \in D : f[n] \in RawValues}
      : D \in SUBSET PlainNames, R \in {{}} \cup {{r} : r \in ReservedNames} }

NoStacks == [built |-> FALSE, map |-> EmptyDict]
NoLast == Result("", "", "", "", "", FALSE)
NoCalls == [n \in RefUniverse |-> 0]

\* StackRefs.__init__: only self.config and self.refs are assigned
RefsConstructed ==
    /\ stacks = NoStacks
    /\ world = {}
    /\ describe_calls = NoCalls
    /\ interp_calls = NoCalls
    /\ last = NoLast

RefsIdle ==
    /\ refs = EmptyDict
    /\ refs_order = << >>
    /\ RefsConstructed

Init ==
    /\ vars0 \in RawVarSets
    /\ vars = vars0
    /\ self = EmptyDict
    /\ errors = EmptyDict
    /\ interpolation_depth = 0
    /\ todo = << >>
    /\ failed_keys = FailedKeysNone
    /\ last_error = EmptyDict
    /\ config = NoConfig
    /\ pass_start = EmptyDict
    /\ pc = "expand_while"
    /\ RefsIdle
    /\ AuxIdle

Next ==
    \/ ExpandLoop
    \/ ExpandKey
    \/ VarsInit
    \/ BuildParams
    \/ BuildTemplateSource
    \/ BuildDeploy
    \/ BuildTags
    \/ Validate

Spec == Init /\ [][Next]_allvars

----------------------------------------------------------------------------
(* The operations of one StackRefs object *)

CfgOptions ==
    {NoneObject,
     DictObject(EmptyDict),
     DictObject("optional" :> BoolRaw(TRUE)),
     DictObject("optional" :> Tpl(<<Lit("true")>>)),
     DictObject("stack_name" :> Tpl(<<Lit("something-"), Ref("environment"), Lit("-else")>>)),
     BoolObject(TRUE)}

RefOrders ==
    {o \in UNION {[1..k -> RefUniverse] : k \in 0..MaxRefs} :
        \A i \in DOMAIN o, j \in DOMAIN o : o[i] = o[j] => i = j}

VarsIdle ==
    /\ vars0 = EmptyDict
    /\ vars = EmptyDict
    /\ self = EmptyDict
    /\ errors = EmptyDict
    /\ interpolation_depth = 0
    /\ todo = << >>
    /\ failed_keys = FailedKeysNone
    /\ last_error = EmptyDict
    /\ config = NoConfig
    /\ pass_start = EmptyDict
    /\ pc = "idle"

InitRefs ==
    /\ refs_order \in RefOrders
    /\ refs \in [{refs_order[i] : i \in DOMAIN refs_order} -> CfgOptions]
    /\ "environment" \in DOMAIN refs => refs["environment"] = NoneObject
    /\ RefsConstructed
    /\ VarsIdle
    /\ AuxIdle

NextRefs ==
    \/ \E name \in QueryNames : Stack(name)
    \/ \E name \in QueryNames : Contains(name)
    \/ \E name \in QueryNames : Exists(name)
    \/ \E name \in QueryNames : Describe(name)
    \/ \E name \in QueryNames, key \in OutputKeys : Output(name, key)
    \/ EnvChange

SpecRefs == InitRefs /\ [][NextRefs]_allvars

----------------------------------------------------------------------------
(* One StackRefs object whose reference "my_db" takes every form of spec *)

SomethingElse == Tpl(<<Lit("something-"), Ref("environment"), Lit("-else")>>)

\* the forms of the optional flag
OptionalForms ==
    {BoolRaw(TRUE), BoolRaw(FALSE), NoneRaw, IntRaw("1"),
     Tpl(<<Lit("true")>>), Tpl(<<Lit("yes")>>), Tpl(<<Lit("maybe")>>)}

\* the forms of a reference spec: null, mappings, and values of other types
SpecForms ==
    {NoneObject, DictObject(EmptyDict), DictObject("stack_name" :> SomethingElse)}
    \cup {DictObject("optional" :> o) : o \in OptionalForms}
    \cup {DictObject(("stack_name" :> SomethingElse) @@ ("optional" :> BoolRaw(TRUE))),
          DictObject("region" :> Tpl(<<Lit("x")>>))}
    \cup {BoolObject(TRUE), BoolObject(FALSE), IntObject(0), IntObject(7),
          StrObject(<< >>), StrObject(<<"x">>)}

\* the specs of the second reference, "bar": valid ones
PlainForms == {NoneObject, DictObject("stack_name" :> SomethingElse)}

InitOpts ==
    /\ refs_order \in {<<"my_db">>, <<"my_db", "bar">>, <<"bar", "my_db">>}
    /\ refs \in [{refs_order[i] : i \in DOMAIN refs_order} -> SpecForms]
    /\ "bar" \in DOMAIN refs => refs["bar"] \in PlainForms
    /\ RefsConstructed
    /\ VarsIdle
    /\ AuxIdle

SpecOpts == InitOpts /\ [][NextRefs]_allvars

----------------------------------------------------------------------------
(* InterpolatedDict as a function of its object and its context *)

InitMap ==
    /\ imap \in [stage : {"input"}, object : MapObjects, ctx : MapContexts,
                  first : {NoMap}, second : {NoMap}]
    /\ tpl = TplIdle
    /\ aws = AwsIdle
    /\ RefsIdle
    /\ VarsIdle

NextMap ==
    \/ MapApply
    \/ MapApplyAgain

SpecMap == InitMap /\ [][NextMap]_allvars

----------------------------------------------------------------------------
(* One Template rendered once, and its FailedTemplate printed *)

InitTemplate ==
    /\ \E n \in 1..MaxLines, fail_on_error \in BOOLEAN :
          \E fault \in Faults(n) :
             tpl = [TplIdle EXCEPT !.stage = "ready", !.raw = Text("raw", n),
                                   !.content = Text("content", n), !.fault = fault,
                                   !.location = "provider", !.fail_on_error = fail_on_error]
    /\ imap = ImapIdle
    /\ aws = AwsIdle
    /\ RefsIdle
    /\ VarsIdle

NextTemplate ==
    \/ TemplateRender
    \/ FailedStr

SpecTemplate == InitTemplate /\ [][NextTemplate]_allvars

----------------------------------------------------------------------------
(* Config.__init__ up to the sections, and the requests on its AwsSettings *)

InitAws ==
    /\ \E declared \in Accounts \cup {NoAccount}, actual \in Accounts :
          aws = [AwsIdle EXCEPT !.stage = "aws", !.declared = declared,
                                !.account_id = declared, !.actual = actual]
    /\ imap = ImapIdle
    /\ tpl = TplIdle
    /\ RefsIdle
    /\ VarsIdle

NextAws ==
    \/ ConfigAws
    \/ ConfigSection
    \/ \E op \in {"client", "resource", "get_account_id"} : Request(op)

SpecAws == InitAws /\ [][NextAws]_allvars

----------------------------------------------------------------------------
(* The dependency graph of a raw variable mapping *)

RefsOf(value) == {value.toks[i].ref : i \in 1..Len(value.toks)} \ {""}

RECURSIVE Closure(_, _)
Closure(S, raw) ==
    LET N == S \cup UNION {RefsOf(raw[x]) : x \in S \cap DOMAIN raw}
    IN  IF N = S THEN S ELSE Closure(N, raw)

\* names reachable from k by one or more references
ReachPlus(k, raw) == Closure(RefsOf(raw[k]), raw)

CycleKeys(raw) == {k \in DOMAIN raw : k \in ReachPlus(k, raw)}

\* every reference leads to a name of the mapping and no reference chain is cyclic
Acyclic(raw) ==
    \A k \in DOMAIN raw : ReachPlus(k, raw) \subseteq DOMAIN raw /\ k \notin ReachPlus(k, raw)

SetMax(S) == IF S = {} THEN 0 ELSE CHOOSE m \in S : \A x \in S : x <= m

RECURSIVE ChainLen(_, _)
ChainLen(k, raw) == 1 + SetMax({ChainLen(r, raw) : r \in RefsOf(raw[k])})

LongestChain(raw) == SetMax({ChainLen(k, raw) : k \in DOMAIN raw})

InExpand == pc \in {"expand_while", "expand_for"}

Unresolved == (DOMAIN vars0) \ (DOMAIN self)

----------------------------------------------------------------------------
(* Claims about Vars and Config.__init__ (checked under Spec) *)

\* C1 (as claimed): for an acyclic raw mapping, once as many passes as the
\* longest dependency chain is long have been completed, every variable is
\* resolved, and expand never gives up on such a mapping.
C1_ConvergesWithinChainLength ==
    Acyclic(vars0) =>
        /\ (pc = "expand_while" /\ interpolation_depth >= LongestChain(vars0))
              => Unresolved = {}
        /\ pc # "raised" \/ config.raised # "vars"

\* C2: when the raw mapping holds a reference cycle, no variable on the cycle
\* is ever resolved, expand leaves its loop only with the iteration bound
\* exhausted, Vars.__init__ raises, no later step runs, and every variable on
\* the cycle has an entry in the returned error table.
C2_CycleRejected ==
    CycleKeys(vars0) # {} =>
        /\ CycleKeys(vars0) \cap DOMAIN self = {}
        /\ pc \in {"expand_while", "expand_for", "vars_init", "raised"}
        /\ ~InExpand =>
              /\ ~WhileCond(interpolation_depth)
              /\ ~failed_keys.none
              /\ CycleKeys(vars0) \subseteq DOMAIN failed_keys.table
        /\ pc = "raised" => config.raised = "vars"

C2_Witness ==
    /\ pc = "raised"
    /\ Cardinality(CycleKeys(vars0)) >= 2
    /\ DOMAIN self # {}

\* C3: the error table expand returns when it gives up has an entry exactly
\* for the variables that are not in the resolved context, each entry holding
\* the key, the original raw value and the exception of the key's latest
\* attempt; after every completed pass no resolved variable has an entry.
C3_ErrorTable ==
    /\ (~InExpand /\ ~failed_keys.none) =>
          /\ DOMAIN failed_keys.table = Unresolved
          /\ \A k \in DOMAIN failed_keys.table :
                failed_keys.table[k] = InterpolationError(k, vars0[k], last_error[k])
    /\ pc = "expand_while" => DOMAIN errors \cap DOMAIN self = {}

C3_Witness ==
    /\ ~InExpand
    /\ ~failed_keys.none
    /\ DOMAIN self # {}
    /\ \E k \in DOMAIN failed_keys.table :
          failed_keys.table[k].error.type = "UndefinedError"

\* C4: when expand is over and a variable is still unresolved, Vars.__init__
\* raises: Config.vars is never assigned and no later step of Config.__init__
\* assigns anything or injects an entry into the resolved context.
C4_AllOrNothing ==
    (~InExpand /\ Unresolved # {}) =>
        /\ pc \in {"vars_init", "raised"}
        /\ config.assigned = {}
        /\ pc = "raised" => config.raised = "vars"
        /\ \A k \in DOMAIN self : self[k].t \notin {"params", "deploy"}

C4_Witness ==
    /\ pc = "raised"
    /\ config.raised = "vars"
    /\ DOMAIN self # {}
    /\ Unresolved # {}

\* C5 (as claimed): a pass over the unresolved variables is never one beyond
\* the MAX_INTERPOLATION_DEPTH-th.
C5_AtMostMaxPasses ==
    pc = "expand_for" => interpolation_depth <= MAX_INTERPOLATION_DEPTH

\* C6 (as claimed): a name that has a value in the resolved context keeps
\* that value in every later step of expand and of Config.__init__.
C6_AppendOnly ==
    [][\A k \in DOMAIN self : k \in DOMAIN self' /\ self'[k] = self[k]]_allvars


----------------------------------------------------------------------------
(* Claims about StackRefs (checked under SpecRefs) *)

LastHandle == stacks.map[last.name]

LastOnHandle == last.name \in DOMAIN stacks.map /\ last.outcome \in {"return", "raise"}

\* C7: when the target of a declared reference does not exist (as its handle
\* sees it), output(name, key) returns None if the handle is optional and
\* raises "Stack config.refs[<name>] (<target>) does not exist, but is
\* required" if it is not, and in both cases stack.output was not called.
C7_OptionalSemantics ==
    (last.op = "output" /\ LastOnHandle /\ LastHandle.result = "none") =>
        /\ ~last.lookup
        /\ LastHandle.optional = BoolVal(TRUE) =>
              last.outcome = "return" /\ last.value = "None"
        /\ LastHandle.optional = BoolVal(FALSE) =>
              /\ last.outcome = "raise"
              /\ last.msg = "Stack config.refs[" \o last.name \o "] (" \o LastHandle.name
                            \o ") does not exist, but is required"

C7_Witness ==
    /\ last.op = "output"
    /\ LastOnHandle
    /\ LastHandle.result = "none"
    /\ LastHandle.optional = BoolVal(TRUE)
    /\ last.value = "None"

\* C8 (as claimed): stack, exists and output fail for a name that refs does
\* not declare, and the error for a name stack() does not accept lists, sorted
\* and joined by ", ", exactly the names stack() accepts.
C8_UnknownReference ==
    /\ (last.op \in {"stack", "exists", "output"} /\ last.name \notin DOMAIN refs)
          => last.outcome # "return"
    /\ (last.op \in {"stack", "exists", "output"} /\ last.outcome = "raise"
        /\ last.name \notin DOMAIN stacks.map)
          => last.msg = "Attempt to access stack " \o last.name
                        \o ", but it's not defined in config.refs - only "
                        \o JoinComma(sorted(DOMAIN stacks.map)) \o " are defined"

\* C9: the deployment state is asked at most once per handle; the result of
\* that first call stays with the handle whatever happens to the deployment
\* state, and exists, describe_stack and output answer from it.
C9_Memoized ==
    /\ [](\A n \in RefUniverse : describe_calls[n] <= 1)
    /\ [][\A n \in DOMAIN stacks.map :
             stacks.map[n].result # "unset" =>
                n \in DOMAIN stacks'.map /\ stacks'.map[n].result = stacks.map[n].result]_allvars
    /\ []((last.op \in {"exists", "describe", "output"} /\ LastOnHandle) =>
             /\ describe_calls[last.name] = 1
             /\ last.op = "exists" => (last.value = "True" <=> LastHandle.result = "stack")
             /\ last.op = "describe" => last.value = LastHandle.result
             /\ last.op = "output" => (last.lookup <=> LastHandle.result = "stack"))

C9_Witness ==
    /\ last.op = "exists"
    /\ LastOnHandle
    /\ last.value = "False"
    /\ LastHandle.name \in world
    /\ describe_calls[last.name] = 1

\* C10: until the first access there is no registry, no handle and no
\* interpolated reference option; the first access creates the registry; from
\* then on the registry holds the same names with the same handles (target,
\* optional flag and cached description) and no option is interpolated again.
C10_LazyRegistry ==
    /\ [](~stacks.built =>
             /\ stacks.map = EmptyDict
             /\ last.op = ""
             /\ \A n \in RefUniverse : interp_calls[n] = 0 /\ describe_calls[n] = 0)
    /\ [](last.op # "" => stacks.built)
    /\ [](\A n \in RefUniverse : interp_calls[n] <= 1)
    /\ [][stacks.built =>
             /\ stacks'.built
             /\ interp_calls' = interp_calls
             /\ DOMAIN stacks'.map = DOMAIN stacks.map
             /\ \A n \in DOMAIN stacks.map :
                   /\ stacks'.map[n].name = stacks.map[n].name
                   /\ stacks'.map[n].optional = stacks.map[n].optional
                   /\ stacks.map[n].result # "unset" =>
                         stacks'.map[n].result = stacks.map[n].result]_allvars

C10_Witness ==
    /\ stacks.built
    /\ last.op = "stack"
    /\ last.outcome = "return"
    /\ LastHandle.result # "unset"
    /\ interp_calls[last.name] = 1

----------------------------------------------------------------------------
(* Claims about the passes of Vars.expand (checked under Spec) *)

\* C19 (as claimed): in every pass, the first included, a variable whose
\* expression evaluates successfully against the resolved context at the time
\* it is attempted is in the resolved context when its attempt is over; so a
\* literal or a value of a non-templated type is resolved by the first pass.
C19_ResolvedInSamePass ==
    [][(pc = "expand_for" /\ Attempt(Head(todo), vars[Head(todo)], self).ok)
          => Head(todo) \in DOMAIN self']_allvars

\* C20 (as claimed): a variable resolved by an attempt evaluates successfully
\* against the resolved context as it stood when the pass began, that is
\* without the variables resolved earlier in the same pass.
C20_PassStartContext ==
    [][(pc = "expand_for" /\ Head(todo) \in DOMAIN self')
          => Attempt(Head(todo), vars[Head(todo)], pass_start).ok]_allvars

----------------------------------------------------------------------------
(* Claims about the reference specs (checked under SpecOpts) *)

\* C11 (as claimed): a reference declared with null or with an empty mapping
\* gets the target identifier "<environment>-<reference name>".
C11_DefaultsAsClaimed ==
    \A n \in DOMAIN stacks.map :
        (refs[n] = NoneObject \/ refs[n] = DictObject(EmptyDict))
           => stacks.map[n].name = Environment \o "-" \o n

\* C11 (amended): a reference declared with null or with an empty mapping is
\* valid and gets all defaults: its target identifier is "<environment>-" and
\* the reference name with "_" replaced by "-", its optional flag is false,
\* and output() on it fails as required when the target does not exist; an
\* option given explicitly replaces only the default of its own key.
C11_Defaults ==
    /\ (stacks.built /\ \A n \in DOMAIN refs : refs[n] = NoneObject \/ refs[n] = DictObject(EmptyDict))
          => DOMAIN stacks.map = DOMAIN refs
    /\ \A n \in DOMAIN stacks.map :
          LET h == stacks.map[n]
              given == refs[n].d
          IN  /\ "stack_name" \notin DOMAIN given => h.name = Environment \o "-" \o Dashed(n)
              /\ "optional" \notin DOMAIN given => h.optional = BoolVal(FALSE)
              /\ ("stack_name" \in DOMAIN given /\ given["stack_name"] = SomethingElse)
                    => h.name = "something-" \o Environment \o "-else"
              /\ ("optional" \in DOMAIN given /\ given["optional"] = BoolRaw(TRUE))
                    => h.optional = BoolVal(TRUE)
              /\ (refs[n] \in {NoneObject, DictObject(EmptyDict)} /\ last.op = "output"
                  /\ last.name = n /\ h.result = "none")
                    => /\ last.outcome = "raise"
                       /\ last.msg = "Stack config.refs[" \o n \o "] (" \o Environment \o "-"
                                     \o Dashed(n) \o ") does not exist, but is required"

C11_Witness ==
    /\ last.op = "output"
    /\ last.name = "my_db"
    /\ last.outcome = "raise"
    /\ refs["my_db"] = NoneObject
    /\ "bar" \in DOMAIN stacks.map
    /\ refs["bar"] = DictObject("stack_name" :> SomethingElse)
    /\ stacks.map["my_db"].name = "dev-my-db"

\* C12 (as claimed): when a reference is declared with a spec that is neither
\* null nor a mapping, the first access to the registry, whatever name it asks
\* for, terminates with exit status -1 and returns no handle.
C12_NonMappingRejected ==
    [][(~stacks.built /\ \E n \in DOMAIN refs : refs[n].kind \notin {"none", "dict"})
          => last'.outcome = "exit"]_allvars

\* C13 (as claimed): once the registry is built the optional flag of every
\* handle is a boolean; the boolean true and the string "true" yield an
\* optional handle, an omitted flag a required one, and a handle is optional
\* only if its flag was given as the boolean true or as a boolean-like string.
C13_OptionalCoercion ==
    \A n \in DOMAIN stacks.map :
        LET h == stacks.map[n]
            given == refs[n].d
        IN  /\ h.optional \in {BoolVal(TRUE), BoolVal(FALSE)}
            /\ ("optional" \in DOMAIN given
                /\ given["optional"] \in {BoolRaw(TRUE), Tpl(<<Lit("true")>>)})
                  => h.optional = BoolVal(TRUE)
            /\ "optional" \notin DOMAIN given => h.optional = BoolVal(FALSE)
            /\ Truthy(h.optional)
                  => /\ "optional" \in DOMAIN given
                     /\ given["optional"] \in {BoolRaw(TRUE)} \cup {Tpl(<<Lit(w)>>) : w \in YamlTrue}

----------------------------------------------------------------------------
(* Claims about InterpolatedDict (checked under SpecMap) *)

\* C17 (as claimed): InterpolatedDict yields an empty mapping without error
\* for None and for an empty mapping, and raises for every object that is not
\* a mapping, the empty or falsy ones included.
C17_NonMappingRaises ==
    imap.stage \in {"once", "twice"} =>
        /\ (imap.object = NoneObject \/ imap.object = DictObject(EmptyDict))
              => imap.first = [ok |-> TRUE, d |-> EmptyDict]
        /\ imap.object.kind \notin {"none", "dict"} => ~imap.first.ok

\* C18 (as claimed): when InterpolatedDict succeeded on a mapping with a
\* context, InterpolatedDict on its result with an empty context succeeds and
\* yields a mapping equal to that result.
C18_Idempotent ==
    (imap.stage = "twice" /\ imap.object.kind = "dict")
        => imap.second.ok /\ imap.second.d = imap.first.d

----------------------------------------------------------------------------
(* Claims about Template.render and FailedTemplate (checked under SpecTemplate) *)

C15_ContextWindow ==
    (tpl.stage = "reported" /\ tpl.report.kind = "template"
     /\ Len(tpl.result.template.source.lines) = 10) =>
        LET l == Head(FromTemplateFrame(tpl.fault.frames)).lineno
            shown == tpl.report.context
        IN  /\ tpl.report.line_no = l
            /\ l = 6 => [j \in DOMAIN shown |-> shown[j].no] = <<3, 4, 5, 6, 7, 8>>
            /\ \A j \in DOMAIN shown :
                  /\ shown[j].no \in 1..10
                  /\ shown[j].line = tpl.result.template.source.lines[shown[j].no]

----------------------------------------------------------------------------
(* Claims about AwsSettings (checked under SpecAws) *)

\* C16: when the settings declare an account id and the credentials belong to
\* another account, the session request of Config.__init__ raises and
\* construction stops there with no section interpolated; no client or
\* resource is ever handed out, and every later request on the settings raises
\* again.
C16_AccountMismatch ==
    (aws.declared # NoAccount /\ aws.actual # aws.declared) =>
        /\ aws.stage \in {"aws", "raised"}
        /\ aws.interpolated = {}
        /\ aws.handed = 0
        /\ ~aws.checked
        /\ aws.last # NoRequest => aws.last.outcome = "raise"

C16_Witness ==
    /\ aws.declared # NoAccount
    /\ aws.actual # aws.declared
    /\ aws.stage = "raised"
    /\ aws.last = [op |-> "client", outcome |-> "raise"]

----------------------------------------------------------------------------
(* Claims about the report of FailedTemplate (checked under SpecTemplate) *)

\* C21 (as claimed): when frames of the traceback originate in template text,
\* the report gives the line of the innermost of them; when none does, the
\* report says the error occurred outside the template and gives the file
\* name and the line of the innermost frame of the traceback.
C21_InnermostTemplateFrame ==
    tpl.stage = "reported" =>
        LET frames == tpl.fault.frames
            inTemplate == {i \in DOMAIN frames : frames[i].filename = "<template>"}
        IN  IF inTemplate = {}
            THEN /\ tpl.report.kind = "outside"
                 /\ tpl.report.filename = frames[Len(frames)].filename
                 /\ tpl.report.line_no = frames[Len(frames)].lineno
            ELSE /\ tpl.report.kind = "template"
                 /\ tpl.report.line_no =
                       frames[CHOOSE i \in inTemplate : \A j \in inTemplate : j <= i].lineno

\* C25 (as claimed): for a source of n lines and an error at line L of it, the
\* lines printed are the line L and the lines before and after it that exist
\* in the source, up to ERROR_CONTEXT_LINES on each side.
C25_WindowHoldsErrorLine ==
    (tpl.stage = "reported" /\ tpl.report.kind = "template") =>
        LET n == Len(tpl.result.template.source.lines)
            L == tpl.report.line_no
            shown == {tpl.report.context[j].no : j \in DOMAIN tpl.report.context}
        IN  /\ L \in shown
            /\ shown = {i \in 1..n : L - ERROR_CONTEXT_LINES <= i /\ i <= L + ERROR_CONTEXT_LINES}

----------------------------------------------------------------------------
(* Claim about null values in InterpolatedDict (checked under SpecMap) *)

\* C23 (as claimed): when InterpolatedDict succeeds on a mapping, a key whose
\* value is null or renders to the text "null" is in the result with the
\* value None, a key whose value renders to the empty text is not in the
\* result, and every other key of the mapping is in the result.
C23_NullHandling ==
    (imap.stage \in {"once", "twice"} /\ imap.object.kind = "dict" /\ imap.first.ok) =>
        \A k \in DOMAIN imap.object.d :
            LET v == imap.object.d[k]
                text == Render(v, imap.ctx).text
            IN  IF v = NoneRaw \/ text = <<"null">>
                THEN k \in DOMAIN imap.first.d /\ imap.first.d[k] = NoneValue
                ELSE IF text = << >>
                THEN k \notin DOMAIN imap.first.d
                ELSE k \in DOMAIN imap.first.d

----------------------------------------------------------------------------
(* Claim about failed builds of the registry (checked under SpecOpts) *)

\* C24 (as claimed): whenever an operation got a registry from stacks(), that
\* is whenever it returned, the registry holds a handle for every declared
\* reference other than "environment", also after an earlier build failed.
C24_FailureNotCached ==
    last.outcome = "return" => DOMAIN stacks.map = (DOMAIN refs) \ {"environment"}

----------------------------------------------------------------------------
(* Claim about the key sets of Vars.expand (checked under Spec) *)

\* C27: between the attempts of expand the keys of the resolved context and
\* the keys left in the raw mapping are disjoint, and together they are the
\* keys of the raw mapping as it was passed in.
C27_KeysPartition ==
    InExpand =>
        /\ (DOMAIN self) \cap (DOMAIN vars) = {}
        /\ (DOMAIN self) \cup (DOMAIN vars) = DOMAIN vars0

C27_Witness ==
    /\ pc = "expand_for"
    /\ DOMAIN self # {}
    /\ DOMAIN vars # {}
    /\ Cardinality(DOMAIN vars0) >= 2

----------------------------------------------------------------------------
(* Config.__init__ from the refs section on *)

\* A reference spec as StackRefs finds it in the interpolated refs section
\* (a numeral of Digits has no 0, so an int spec is never zero)
SpecOf(val) ==
    IF val.t = "none" THEN NoneObject
    ELSE IF val.t = "bool" THEN BoolObject(val.s = <<"True">>)
    ELSE IF val.t = "int" THEN IntObject(Len(val.s))
    ELSE StrObject(val.s)

\* The values a reference takes in the refs section handed over by fetch_dict
RefSpecValues ==
    {NoneRaw, BoolRaw(TRUE), Tpl(<<Lit("x")>>), Tpl(<<Ref("environment")>>), Tpl(<<Ref("nope")>>)}

\* each section lists "bar" before "my_db", the order sorted() gives
RefSections ==
    {NoneObject}
        \cup {DictObject("bar" :> v) : v \in RefSpecValues}
        \cup {DictObject(("bar" :> v) @@ ("my_db" :> NoneRaw)) : v \in RefSpecValues}

\* `not cfg` is false and cfg is not a dict: the spec stacks() rejects
Malformed(cfg) == cfg.truthy /\ cfg.kind # "dict"

\* refs = InterpolatedDict(fetch_dict("refs", ..), {"environment": ..});
\* self.refs = StackRefs(refs, self), which only stores its arguments
ConfigRefs ==
    /\ pc = "refs"
    /\ \E section \in RefSections :
          \E r \in {InterpolatedDict(section, "environment" :> StrVal(<<Environment>>))} :
             IF r.ok
             THEN /\ refs' = [n \in DOMAIN r.d |-> SpecOf(r.d[n])]
                  /\ refs_order' = sorted(DOMAIN r.d)
                  /\ config' = [config EXCEPT !.assigned = @ \cup {"refs"}]
                  /\ pc' = "expand_while"
             ELSE /\ config' = Raise("refs")
                  /\ pc' = "raised"
                  /\ UNCHANGED <<refs, refs_order>>
    /\ UNCHANGED <<vars, vars0, self, errors, interpolation_depth, todo, failed_keys, last_error, pass_start>>
    /\ UNCHANGED <<stacks, world, describe_calls, interp_calls, last>>
    /\ UNCHANGED auxV

InitConfig ==
    /\ vars0 \in RawVarSets
    /\ vars = vars0
    /\ self = EmptyDict
    /\ errors = EmptyDict
    /\ interpolation_depth = 0
    /\ todo = << >>
    /\ failed_keys = FailedKeysNone
    /\ last_error = EmptyDict
    /\ config = NoConfig
    /\ pass_start = EmptyDict
    /\ pc = "refs"
    /\ RefsIdle
    /\ AuxIdle

NextConfig ==
    \/ ConfigRefs
    \/ ExpandLoop
    \/ ExpandKey
    \/ VarsInit
    \/ BuildParams
    \/ BuildTemplateSource
    \/ BuildDeploy
    \/ BuildTags
    \/ Validate

SpecConfig == InitConfig /\ [][NextConfig]_allvars

\* C22 (as claimed): a reference spec that is not a mapping makes the
\* construction of Config fail at the refs step, before vars are resolved: no
\* state past that step holds a malformed spec in refs.
C22_MalformedRefFailsEarly ==
    (\E n \in (DOMAIN refs) \ {"environment"} : Malformed(refs[n])) =>
        /\ pc = "raised"
        /\ config.raised = "refs"
        /\ "vars" \notin config.assigned

====
